---- MODULE Spec2Model ----
(***************************************************************************)
(* Model of the recipe API route (src/pages/api/generate.ts) and of the    *)
(* page component (src/pages/index.tsx).                                   *)
(*                                                                         *)
(* Text.  A JavaScript string is modelled as the sequence of its lexemes:  *)
(* a maximal run of letters (a word), a maximal run of digits, or one      *)
(* punctuation / whitespace character.  Two lexemes stand for characters   *)
(* that cannot be written in a string literal here: Fence is a run of      *)
(* three backticks, Bullet is U+2022.  Every regular expression of the     *)
(* source is matched lexeme by lexeme; because words and digit runs are    *)
(* maximal, a keyword never straddles two lexemes.                         *)
(*                                                                         *)
(* Values.  A JavaScript value is a record whose field t is its type tag;  *)
(* the payload is s (lexemes of a string), n (lexemes of a number), b (of  *)
(* a boolean), a (elements of an array) or o (the key -> value function    *)
(* of an object).                                                          *)
(***************************************************************************)
EXTENDS Integers, Sequences, FiniteSets, TLC

VARIABLES
    pc,         \* handler: position in handler()
    req,        \* handler: the inbound request [method, body]
    apiKey,     \* handler: process.env.OPENROUTER_API_KEY
    response,   \* handler: what fetch() resolved to
    content,    \* handler: data.choices[0].message.content
    res,        \* handler: the responses sent, in order
    fetchCalls, \* handler: number of outbound fetch() calls
    stages,     \* handler: the stages entered, in order
    text,       \* extractRecipeFromText: its argument
    xpc,        \* extractRecipeFromText: position in the function
    idx,        \* extractRecipeFromText: index of the next line of a scan
    title,      \* extractRecipeFromText: local title
    ingredients,            \* extractRecipeFromText: local ingredients
    inIngredientsSection,   \* extractRecipeFromText: local flag
    instructions,           \* extractRecipeFromText: local instructions
    inInstructionsSection,  \* extractRecipeFromText: local flag
    result,     \* extractRecipeFromText: the returned Recipe
    normRecipe, \* array coercion: the recipe object of lines 126-131
    npc,        \* array coercion: position in lines 126-131
    passes,     \* array coercion: completed runs of lines 126-131
    afterFirst, \* array coercion: the recipe as the first run left it
    imageState,     \* page: useState imageState
    loadingState,   \* page: useState loadingState
    pageRecipe,     \* page: useState recipe
    pageError,      \* page: useState error
    readers,        \* page: the files a FileReader is reading
    requests,       \* page: the generateRecipe calls awaiting their response
    uploads,        \* page: number of handleImageUpload calls
    generates       \* page: number of generateRecipe calls

hvars == <<pc, req, apiKey, response, content, res, fetchCalls, stages>>
xvars == <<text, xpc, idx, title, ingredients, inIngredientsSection,
           instructions, inInstructionsSection, result>>
nvars == <<normRecipe, npc, passes, afterFirst>>
pvars == <<imageState, loadingState, pageRecipe, pageError, readers, requests,
           uploads, generates>>
vars == <<hvars, xvars, nvars, pvars>>

(***************************************************************************)
(* Lexemes                                                                 *)
(***************************************************************************)
Fence == "<fence>"
Bullet == "<bullet>"
NL == "\n"
SP == " "
QUOTE == "\""

Digits == {"0", "1", "2", "3", "4", "5", "30"}

\* \s
IsSpace(c) == c \in {SP, NL}

\* the words that contain the keyword, whatever their case (/kw/i)
WordsContaining(kw) ==
    CASE kw = "ingredients"  -> {"Ingredients", "ingredients"}
      [] kw = "instructions" -> {"Instructions", "instructions"}
      [] kw = "directions"   -> {"Directions"}
      [] kw = "steps"        -> {"Steps", "Footsteps"}
      [] OTHER               -> {}

\* the words that end with the keyword, whatever their case
WordsEndingWith(kw) ==
    CASE kw = "title"  -> {"Title", "title", "Subtitle"}
      [] kw = "dish"   -> {"Dish"}
      [] kw = "recipe" -> {"Recipe", "recipe"}
      [] OTHER         -> {}

\* the words that are the keyword, whatever their case
WordsEqual(kw) ==
    CASE kw = "step" -> {"Step", "step"}
      [] kw = "json" -> {"json"}
      [] OTHER       -> {}

(***************************************************************************)
(* String.prototype helpers                                                *)
(***************************************************************************)
RECURSIVE TrimStart(_)
TrimStart(s) ==
    IF s # <<>> /\ IsSpace(Head(s)) THEN TrimStart(Tail(s)) ELSE s

RECURSIVE TrimEnd(_)
TrimEnd(s) ==
    IF s # <<>> /\ IsSpace(s[Len(s)]) THEN TrimEnd(SubSeq(s, 1, Len(s) - 1)) ELSE s

\* String.prototype.trim
Trim(s) == TrimEnd(TrimStart(s))

\* String.prototype.indexOf(c), 1-based; 0 stands for -1
IndexOf(s, c) ==
    IF \E i \in 1..Len(s) : s[i] = c
    THEN CHOOSE i \in 1..Len(s) : s[i] = c /\ \A j \in 1..(i - 1) : s[j] # c
    ELSE 0

\* String.prototype.lastIndexOf(c), 1-based; 0 stands for -1
LastIndexOf(s, c) ==
    IF \E i \in 1..Len(s) : s[i] = c
    THEN CHOOSE i \in 1..Len(s) : s[i] = c /\ \A j \in (i + 1)..Len(s) : s[j] # c
    ELSE 0

\* String.prototype.includes(c)
Includes(s, c) == \E i \in 1..Len(s) : s[i] = c

\* String.prototype.substring(start, end) on 0-based offsets: the arguments
\* are swapped when start > end
Substring(s, start, end) ==
    LET lo == IF start <= end THEN start ELSE end
        hi == IF start <= end THEN end ELSE start
    IN  SubSeq(s, lo + 1, hi)

\* String.prototype.split('\n')
RECURSIVE SplitNL(_)
SplitNL(s) ==
    LET i == IndexOf(s, NL)
    IN  IF i = 0 THEN <<s>>
        ELSE <<SubSeq(s, 1, i - 1)>> \o SplitNL(SubSeq(s, i + 1, Len(s)))

\* Array.prototype.includes
ArrayIncludes(a, x) == \E i \in 1..Len(a) : a[i] = x

\* text.split('\n').filter(line => line.trim())
RECURSIVE NonBlank(_)
NonBlank(ls) ==
    IF ls = <<>> THEN <<>>
    ELSE IF Trim(Head(ls)) # <<>> THEN <<Head(ls)>> \o NonBlank(Tail(ls))
         ELSE NonBlank(Tail(ls))

Lines(t) == NonBlank(SplitNL(t))

(***************************************************************************)
(* The regular expressions of extractRecipeFromText                        *)
(***************************************************************************)
\* index of the last lexeme of the line that position i lies on
LineEnd(s, i) ==
    IF \E j \in i..Len(s) : s[j] = NL
    THEN (CHOOSE j \in i..Len(s) : s[j] = NL /\ \A k \in i..(j - 1) : s[k] # NL) - 1
    ELSE Len(s)

\* /(?:title|dish|recipe):\s*(.+)/i tried at position p (the label word):
\* the position where group 1 starts, or 0 when there is no match at p.
\* \s* is greedy and crosses line ends; when only whitespace follows it
\* gives back characters until (.+) finds one that is not a line end.
TitleGroupStart(s, p) ==
    IF ~ (/\ p + 1 <= Len(s)
          /\ s[p] \in WordsEndingWith("title") \cup WordsEndingWith("dish")
                        \cup WordsEndingWith("recipe")
          /\ s[p + 1] = ":")
    THEN 0
    ELSE IF \E q \in (p + 2)..Len(s) : ~ IsSpace(s[q])
    THEN CHOOSE q \in (p + 2)..Len(s) :
            ~ IsSpace(s[q]) /\ \A k \in (p + 2)..(q - 1) : IsSpace(s[k])
    ELSE IF \E r \in (p + 2)..Len(s) : s[r] # NL
    THEN CHOOSE r \in (p + 2)..Len(s) :
            s[r] # NL /\ \A k \in (r + 1)..Len(s) : s[k] = NL
    ELSE 0

\* text.match(/(?:title|dish|recipe):\s*(.+)/i): <<group 1>> of the leftmost
\* match, or <<>> for null
TitleMatch(s) ==
    IF \E p \in 1..Len(s) : TitleGroupStart(s, p) # 0
    THEN LET p == CHOOSE p \in 1..Len(s) :
                    /\ TitleGroupStart(s, p) # 0
                    /\ \A k \in 1..(p - 1) : TitleGroupStart(s, k) = 0
             g == TitleGroupStart(s, p)
         IN  <<SubSeq(s, g, LineEnd(s, g))>>
    ELSE <<>>

\* /ingredients/i.test(line)
IsIngredientsHeader(line) ==
    \E i \in 1..Len(line) : line[i] \in WordsContaining("ingredients")

\* /instructions|directions|steps/i.test(line)
IsInstructionsHeader(line) ==
    \E i \in 1..Len(line) :
        line[i] \in WordsContaining("instructions") \cup WordsContaining("directions")
                      \cup WordsContaining("steps")

\* [-(bullet)*\d]
IsBulletChar(c) == c \in {"-", Bullet, "*"} \cup Digits

\* length of the match of /^[-(bullet)*\d]+[\s\.)]/i at the start of the line,
\* 0 when it does not match
BulletPrefix(line) ==
    IF line = <<>> \/ ~ IsBulletChar(line[1]) THEN 0
    ELSE LET n == CHOOSE n \in 1..Len(line) :
                    /\ \A k \in 1..n : IsBulletChar(line[k])
                    /\ (n = Len(line) \/ ~ IsBulletChar(line[n + 1]))
         IN  IF n < Len(line) /\ line[n + 1] \in {SP, NL, ".", ")"}
             THEN n + 1 ELSE 0

\* number of lexemes /^step\s*\d+/i matches at the start of the line, 0 when
\* it does not match
StepPrefix(line) ==
    IF line = <<>> \/ line[1] \notin WordsEqual("step") THEN 0
    ELSE LET rest == SubSeq(line, 2, Len(line))
             d == Len(rest) - Len(TrimStart(rest)) + 2
         IN  IF d <= Len(line) /\ line[d] \in Digits THEN d ELSE 0

\* a faulty variant: the "step N:" prefix is kept
StripStepKeepsPrefix(line) == line

\* trimmedLine.replace(/^step\s*\d+[:\.)]/i, '')
StripStep(line) ==
    LET d == StepPrefix(line)
    IN  IF d # 0 /\ d < Len(line) /\ line[d + 1] \in {":", ".", ")"}
        THEN SubSeq(line, d + 2, Len(line))
        ELSE line

\* trimmedLine.replace(/^[-(bullet)*\d]+[\s\.)]/i, '')
StripBullet(line) == SubSeq(line, BulletPrefix(line) + 1, Len(line))

(***************************************************************************)
(* JavaScript values                                                       *)
(***************************************************************************)
Str(s) == [t |-> "str", s |-> s]
Num(n) == [t |-> "num", n |-> n]
Bool(b) == [t |-> "bool", b |-> b]
Null == [t |-> "null"]
Undefined == [t |-> "undef"]
Arr(xs) == [t |-> "arr", a |-> xs]
Obj(f) == [t |-> "obj", o |-> f]
EmptyObj == Obj(<<>>)

\* a string literal of the source, one word per lexeme
Words(ws) ==
    [i \in 1..(2 * Len(ws) - 1) |-> IF i % 2 = 1 THEN ws[(i + 1) \div 2] ELSE SP]

\* value.key; the caller has excluded null and undefined, which throw
Get(val, key) ==
    IF val.t = "obj" /\ key \in DOMAIN val.o THEN val.o[key] ELSE Undefined

\* ToBoolean(value)
Truthy(val) ==
    CASE val.t \in {"undef", "null"} -> FALSE
      [] val.t = "bool" -> val.b = "true"
      [] val.t = "str"  -> val.s # <<>>
      [] val.t = "num"  -> \E i \in 1..Len(val.n) : val.n[i] \in Digits \ {"0"}
      [] OTHER -> TRUE

\* Array.isArray(value)
IsArray(val) == val.t = "arr"

(***************************************************************************)
(* extractRecipeFromText (Tier 2)                                          *)
(***************************************************************************)
DefaultTitle == Words(<<"Delicious", "Recipe">>)
IngredientsPlaceholder ==
    Words(<<"Ingredients", "not", "clearly", "specified", "in", "the", "image">>)
InstructionsPlaceholder ==
    Words(<<"Instructions", "not", "clearly", "specified", "in", "the", "image">>)

\* lines 164-170: the title
ExtractTitle(t) ==
    LET m == TitleMatch(t)
        lines == Lines(t)
    IN  IF m # <<>> THEN Trim(m[1])
        ELSE IF lines # <<>> /\ ~ Includes(lines[1], ":") THEN Trim(lines[1])
        ELSE DefaultTitle

\* a faulty variant: the cleaned text is pushed without the includes test
IngredientsStepNoDedupe(st, line) ==
    LET trimmedLine == Trim(line)
        cleaned == Trim(StripBullet(trimmedLine))
    IN  IF IsIngredientsHeader(trimmedLine) THEN [st EXCEPT !.flag = TRUE]
        ELSE IF IsInstructionsHeader(trimmedLine) THEN [st EXCEPT !.flag = FALSE]
        ELSE IF st.flag \/ BulletPrefix(trimmedLine) # 0
        THEN IF cleaned # <<>>
             THEN [st EXCEPT !.list = Append(@, cleaned)]
             ELSE st
        ELSE st

\* lines 176-195: one iteration of the ingredients loop on st = [list, flag]
IngredientsStep(st, line) ==
    LET trimmedLine == Trim(line)
        cleaned == Trim(StripBullet(trimmedLine))
    IN  IF IsIngredientsHeader(trimmedLine) THEN [st EXCEPT !.flag = TRUE]
        ELSE IF IsInstructionsHeader(trimmedLine) THEN [st EXCEPT !.flag = FALSE]
        ELSE IF st.flag \/ BulletPrefix(trimmedLine) # 0
        THEN IF cleaned # <<>> /\ ~ ArrayIncludes(st.list, cleaned)
             THEN [st EXCEPT !.list = Append(@, cleaned)]
             ELSE st
        ELSE st

\* lines 201-215: one iteration of the instructions loop on st = [list, flag]
InstructionsStep(st, line) ==
    LET trimmedLine == Trim(line)
        cleaned == Trim(StripStep(trimmedLine))
    IN  IF IsInstructionsHeader(trimmedLine) THEN [st EXCEPT !.flag = TRUE]
        ELSE IF st.flag \/ StepPrefix(trimmedLine) # 0
        THEN IF cleaned # <<>> /\ ~ ArrayIncludes(st.list, cleaned)
             THEN [st EXCEPT !.list = Append(@, cleaned)]
             ELSE st
        ELSE st

ScanStart == [list |-> <<>>, flag |-> FALSE]

RECURSIVE ScanIngredients(_, _)
ScanIngredients(st, ls) ==
    IF ls = <<>> THEN st ELSE ScanIngredients(IngredientsStep(st, Head(ls)), Tail(ls))

RECURSIVE ScanInstructions(_, _)
ScanInstructions(st, ls) ==
    IF ls = <<>> THEN st ELSE ScanInstructions(InstructionsStep(st, Head(ls)), Tail(ls))

\* a faulty variant: no placeholder is pushed
IngredientsNoPlaceholder(list) == list

\* lines 218-220
IngredientsOrPlaceholder(list) ==
    IF Len(list) = 0 THEN <<IngredientsPlaceholder>> ELSE list

\* lines 222-224
InstructionsOrPlaceholder(list) ==
    IF Len(list) = 0 THEN <<InstructionsPlaceholder>> ELSE list

StrArr(list) == Arr([i \in 1..Len(list) |-> Str(list[i])])

\* lines 226-235: the returned object
MakeRecipe(ttl, ings, inss) ==
    Obj(<<"title">> :> Str(ttl)
        @@ <<"description">> :> Str(Words(<<"Recipe", "generated", "from", "image", "analysis">>))
        @@ <<"ingredients">> :> StrArr(ings)
        @@ <<"instructions">> :> StrArr(inss)
        @@ <<"prepTime">> :> Str(<<"30", SP, "minutes">>)
        @@ <<"cookTime">> :> Str(<<"30", SP, "minutes">>)
        @@ <<"servings">> :> Str(<<"4", SP, "servings">>)
        @@ <<"difficulty">> :> Str(<<"Medium">>))

\* extractRecipeFromText(text) for a string
ExtractRecipeFromText(t) ==
    MakeRecipe(ExtractTitle(t),
               IngredientsOrPlaceholder(ScanIngredients(ScanStart, Lines(t)).list),
               InstructionsOrPlaceholder(ScanInstructions(ScanStart, Lines(t)).list))

(***************************************************************************)
(* JSON.parse, on the lexemes of the text.  Grammar: value = string |      *)
(* number | object | array | true | false | null; a string holds no quote  *)
(* and no line end; a number is [-] digits [. digits]; whitespace may      *)
(* surround every token.  A parse result is [ok, val, next]: next is the   *)
(* position after the value.                                               *)
(***************************************************************************)
ParseFail == [ok |-> FALSE, val |-> Undefined, next |-> 0]
ParseOk(val, next) == [ok |-> TRUE, val |-> val, next |-> next]

\* the first position >= i that holds no whitespace (Len(s) + 1 when none)
RECURSIVE SkipWs(_, _)
SkipWs(s, i) == IF i <= Len(s) /\ IsSpace(s[i]) THEN SkipWs(s, i + 1) ELSE i

At(s, i) == IF i >= 1 /\ i <= Len(s) THEN s[i] ELSE "<eof>"

ParseString(s, i) ==
    IF At(s, i) # QUOTE \/ ~ \E j \in (i + 1)..Len(s) : s[j] = QUOTE THEN ParseFail
    ELSE LET j == CHOOSE j \in (i + 1)..Len(s) :
                    s[j] = QUOTE /\ \A k \in (i + 1)..(j - 1) : s[k] # QUOTE
         IN  IF \E k \in (i + 1)..(j - 1) : s[k] = NL THEN ParseFail
             ELSE ParseOk(Str(SubSeq(s, i + 1, j - 1)), j + 1)

ParseNumber(s, i) ==
    LET d == IF At(s, i) = "-" THEN i + 1 ELSE i
    IN  IF At(s, d) \notin Digits THEN ParseFail
        ELSE IF At(s, d + 1) = "." /\ At(s, d + 2) \in Digits
        THEN ParseOk(Num(SubSeq(s, i, d + 2)), d + 3)
        ELSE ParseOk(Num(SubSeq(s, i, d)), d + 1)

RECURSIVE ParseValue(_, _), ParseElements(_, _, _), ParseMembers(_, _, _)

\* the elements of an array from position i, after acc
ParseElements(s, i, acc) ==
    LET e == ParseValue(s, i)
        k == SkipWs(s, e.next)
    IN  IF ~ e.ok THEN ParseFail
        ELSE IF At(s, k) = "," THEN ParseElements(s, SkipWs(s, k + 1), Append(acc, e.val))
        ELSE IF At(s, k) = "]" THEN ParseOk(Arr(Append(acc, e.val)), k + 1)
        ELSE ParseFail

\* the members of an object from position i, after acc; a repeated key
\* keeps its last value
ParseMembers(s, i, acc) ==
    LET key == ParseString(s, i)
        c == SkipWs(s, key.next)
        e == ParseValue(s, SkipWs(s, c + 1))
        k == SkipWs(s, e.next)
        f == (key.val.s :> e.val) @@ acc
    IN  IF ~ key.ok \/ At(s, c) # ":" \/ ~ e.ok THEN ParseFail
        ELSE IF At(s, k) = "," THEN ParseMembers(s, SkipWs(s, k + 1), f)
        ELSE IF At(s, k) = "}" THEN ParseOk(Obj(f), k + 1)
        ELSE ParseFail

ParseValue(s, i) ==
    LET c == At(s, i)
    IN  CASE c = QUOTE -> ParseString(s, i)
          [] c = "{" ->
                LET k == SkipWs(s, i + 1)
                IN  IF At(s, k) = "}" THEN ParseOk(EmptyObj, k + 1)
                    ELSE ParseMembers(s, k, <<>>)
          [] c = "[" ->
                LET k == SkipWs(s, i + 1)
                IN  IF At(s, k) = "]" THEN ParseOk(Arr(<<>>), k + 1)
                    ELSE ParseElements(s, k, <<>>)
          [] c \in {"true", "false"} -> ParseOk(Bool(c), i + 1)
          [] c = "null" -> ParseOk(Null, i + 1)
          [] c = "-" \/ c \in Digits -> ParseNumber(s, i)
          [] OTHER -> ParseFail

\* JSON.parse(s): ok = FALSE stands for the SyntaxError
JsonParse(s) ==
    LET e == ParseValue(s, SkipWs(s, 1))
    IN  IF e.ok /\ SkipWs(s, e.next) = Len(s) + 1 THEN e ELSE ParseFail

(***************************************************************************)
(* Tier 1: lines 100-133 of the handler                                    *)
(***************************************************************************)
\* content.match(/```(?:json)?\s*([\s\S]*?)\s*```/): <<group 1>> or <<>> (null).
\* The leftmost match opens at the first fence and closes at the next one.
FenceMatch(s) ==
    LET p == IndexOf(s, Fence)
        a == IF At(s, p + 1) \in WordsEqual("json") THEN p + 2 ELSE p + 1
    IN  IF p = 0 \/ ~ \E q \in (p + 1)..Len(s) : s[q] = Fence THEN <<>>
        ELSE LET q == CHOOSE q \in (p + 1)..Len(s) :
                        s[q] = Fence /\ \A k \in (p + 1)..(q - 1) : s[k] # Fence
             IN  <<Trim(SubSeq(s, a, q - 1))>>

\* lines 102-116: the string handed to JSON.parse
JsonString(s) ==
    LET jsonMatch == FenceMatch(s)
        jsonString == IF jsonMatch # <<>> THEN jsonMatch[1] ELSE s
        jsonStart == IndexOf(jsonString, "{") - 1
        jsonEnd == LastIndexOf(jsonString, "}") - 1
    IN  IF jsonStart # -1 /\ jsonEnd # -1
        THEN Substring(jsonString, jsonStart, jsonEnd + 1)
        ELSE jsonString

\* lines 121-123: the structure check
ValidStructure(recipe) ==
    /\ Truthy(Get(recipe, <<"title">>))
    /\ Truthy(Get(recipe, <<"ingredients">>))
    /\ Truthy(Get(recipe, <<"instructions">>))

\* a faulty variant: a scalar is left as it is
EnsureArrayNoWrap(recipe, key) == recipe

\* a faulty variant: an array is wrapped as well
EnsureArrayAlwaysWrap(recipe, key) ==
    Obj([recipe.o EXCEPT ![key] = Arr(<<recipe.o[key]>>)])

\* lines 126-131, for one key
EnsureArray(recipe, key) ==
    IF IsArray(recipe.o[key]) THEN recipe
    ELSE Obj([recipe.o EXCEPT ![key] = Arr(<<recipe.o[key]>>)])

\* lines 100-133: [thrown, recipe]; thrown = TRUE when the try block throws
\* (content is no string, the SyntaxError of JSON.parse, the TypeError of
\* null.title, or 'Invalid recipe structure')
Tier1(c) ==
    IF c.t # "str" THEN [thrown |-> TRUE, recipe |-> Undefined]
    ELSE LET parsed == JsonParse(JsonString(c.s))
         IN  IF ~ parsed.ok \/ parsed.val.t = "null" \/ ~ ValidStructure(parsed.val)
             THEN [thrown |-> TRUE, recipe |-> Undefined]
             ELSE [thrown |-> FALSE,
                   recipe |-> EnsureArray(EnsureArray(parsed.val, <<"ingredients">>),
                                          <<"instructions">>)]

\* a faulty variant: the fallback reads the string handed to JSON.parse
Tier2OnJsonString(c) ==
    IF c.t # "str" THEN [thrown |-> TRUE, recipe |-> Undefined]
    ELSE [thrown |-> FALSE, recipe |-> ExtractRecipeFromText(JsonString(c.s))]

\* lines 139-148: [thrown, recipe]; text.split throws when content is no string
Tier2(c) ==
    IF c.t # "str" THEN [thrown |-> TRUE, recipe |-> Undefined]
    ELSE [thrown |-> FALSE, recipe |-> ExtractRecipeFromText(c.s)]

(***************************************************************************)
(* Bounds and input families                                               *)
(***************************************************************************)
\* longest array of a JSON candidate, longest list of a sectioned text
MaxItems == 2
\* most lines of a free-form text
MaxLines == 2

\* all sequences over S of length lo..hi
SeqsOf(S, lo, hi) == UNION {[1..n -> S] : n \in lo..hi}

RECURSIVE Concat(_)
Concat(ss) == IF ss = <<>> THEN <<>> ELSE Head(ss) \o Concat(Tail(ss))

\* lines joined by line ends
RECURSIVE JoinNL(_)
JoinNL(ls) ==
    IF ls = <<>> THEN <<>>
    ELSE IF Len(ls) = 1 THEN ls[1]
    ELSE ls[1] \o <<NL>> \o JoinNL(Tail(ls))

\* JSON text of a scalar, or of an array of scalars
RECURSIVE Stringify(_)
Stringify(val) ==
    CASE val.t = "str" -> <<QUOTE>> \o val.s \o <<QUOTE>>
      [] val.t = "arr" ->
            <<"[">> \o Concat([i \in 1..Len(val.a) |->
                                (IF i > 1 THEN <<",", SP>> ELSE <<>>) \o Stringify(val.a[i])])
                    \o <<"]">>
      [] val.t = "obj" -> <<"{", "}">>
      [] val.t = "num" -> val.n
      [] val.t = "bool" -> <<val.b>>
      [] OTHER -> <<"null">>

\* JSON text of an object given as its members <<[k, val], ...>>, in order
StringifyMembers(ms) ==
    <<"{">> \o Concat([i \in 1..Len(ms) |->
                        (IF i > 1 THEN <<",", SP>> ELSE <<>>)
                        \o <<QUOTE>> \o ms[i].k \o <<QUOTE, ":", SP>> \o Stringify(ms[i].val)])
            \o <<"}">>

\* the object the members denote
RECURSIVE MembersObj(_)
MembersObj(ms) ==
    IF ms = <<>> THEN <<>>
    ELSE (ms[Len(ms)].k :> ms[Len(ms)].val) @@ MembersObj(SubSeq(ms, 1, Len(ms) - 1))

Member(k, val) == IF val.t = "undef" THEN <<>> ELSE <<[k |-> k, val |-> val]>>

ItemA == <<"Pasta">>
ItemB == <<"Boil", SP, "water">>

TitleVals ==
    {Undefined, Null, Str(<<>>), Str(<<"Mac", SP, "Cheese">>), Str(<<"Mac", Fence, "Cheese">>)}
DescriptionVals == {Undefined, Str(<<"Tasty">>)}
FieldVals ==
    {Undefined, Null, Str(<<>>), Str(<<"one", SP, "item">>), Num(<<"0">>), Num(<<"5">>)}
    \cup {Arr(a) : a \in SeqsOf({Str(ItemA), Str(ItemB)}, 0, MaxItems)}

\* the members of every candidate object (Undefined: the member is absent);
\* the description varies under one title only
Candidates ==
    {Member(<<"title">>, td[1]) \o Member(<<"description">>, td[2])
        \o Member(<<"ingredients">>, ing) \o Member(<<"instructions">>, ins) :
        td \in (TitleVals \X {Undefined}) \cup ({Str(<<"Mac", SP, "Cheese">>)} \X DescriptionVals),
        ing \in FieldVals, ins \in FieldVals}

Wrappers == {"bare", "fenced", "prose"}

\* the completion that carries the JSON text js
Wrap(w, js) ==
    CASE w = "bare" -> js
      [] w = "fenced" -> <<Fence, "json", NL>> \o js \o <<NL, Fence>>
      [] OTHER -> <<"Here", SP, "you", SP, "go", NL, Fence, NL>> \o js
                    \o <<NL, Fence, NL, "Enjoy">>

JsonTexts == {Wrap(w, StringifyMembers(c)) : w \in Wrappers, c \in Candidates}

\* JSON texts that lost their last lexeme, and objects with a bare key
BrokenTexts ==
    LET js == StringifyMembers(Member(<<"title">>, Str(ItemA))
                \o Member(<<"ingredients">>, Arr(<<Str(ItemA)>>))
                \o Member(<<"instructions">>, Arr(<<Str(ItemB)>>)))
    IN  {Wrap(w, SubSeq(js, 1, Len(js) - 1)) : w \in Wrappers}
        \cup {Wrap(w, <<"{", "title", ":", SP, QUOTE, "Pasta", QUOTE, "}">>) : w \in Wrappers}
        \cup {<<"}", SP, "{">>, <<"null">>, <<"5">>, <<"[", "]">>, <<QUOTE, "Pasta", QUOTE>>,
              <<Fence, "json", Fence>>, <<Fence, NL, "Pasta">>, <<>>}

LineShapes ==
    { <<>>, <<SP>>,
      <<"Pasta">>, <<"Note", ":", SP, "Pasta">>,
      <<"Title", ":", SP, "Pasta">>, <<"Title", ":", SP>>, <<"Subtitle", ":", "Soup">>,
      <<"Ingredients", ":">>, <<SP, "Instructions">>, <<"Steps">>,
      <<"-", SP, "Pasta">>, <<"*", SP>>, <<"1", ".", SP, "Boil">>, <<"2", ")", "Pasta">>,
      <<"Step", SP, "1", ":", SP, "Boil">>, <<"step", "2", SP, "Pasta">> }

FreeTexts == {JoinNL(ls) : ls \in SeqsOf(LineShapes, 0, MaxLines)}

\* the decimal numeral of a list position
Numeral(k) == CASE k = 1 -> "1" [] k = 2 -> "2" [] k = 3 -> "3" [] k = 4 -> "4" [] OTHER -> "5"

ItemC == <<"Cheese">>
ItemD == <<"2", SP, "eggs">>
ItemE == <<"Add", SP, "pasta">>

\* an ingredients header, bulleted lines, an instructions header, numbered lines
SectionTexts ==
    {JoinNL(<<ih>>
            \o [i \in 1..Len(its) |-> <<its[i][1], SP>> \o its[i][2]]
            \o <<<<"Instructions">>>>
            \o [i \in 1..Len(acts) |-> <<Numeral(i), sep, SP>> \o acts[i]]) :
        ih \in {<<"Ingredients">>, <<"Ingredients", ":">>},
        its \in SeqsOf({"-", Bullet} \X {ItemA, ItemD}, 1, MaxItems),
        sep \in {".", ")"},
        acts \in SeqsOf({ItemB, ItemE}, 1, MaxItems)}

\* a title label, an ingredients header, numbered items, an instructions
\* header, "Step k:" lines
TitledTexts ==
    {JoinNL(<<<<"Title", ":", SP>> \o ttl, <<"Ingredients">>>>
            \o [i \in 1..Len(its) |-> <<Numeral(i), ".", SP>> \o its[i]]
            \o <<<<"Instructions">>>>
            \o [i \in 1..Len(acts) |-> <<"Step", SP, Numeral(i), ":", SP>> \o acts[i]]) :
        ttl \in {ItemA, <<"Mac", SP, "Cheese">>},
        its \in SeqsOf({ItemA, ItemC, ItemD}, 1, MaxItems),
        acts \in SeqsOf({ItemB, ItemE}, 1, MaxItems)}

\* the texts extractRecipeFromText is applied to
XTexts ==
    FreeTexts \cup SectionTexts \cup TitledTexts \cup BrokenTexts
    \cup {Wrap(w, StringifyMembers(Member(<<"title">>, Str(ItemA))
                    \o Member(<<"ingredients">>, ing))) :
            w \in Wrappers, ing \in {Undefined, Arr(<<Str(ItemA), Str(ItemB)>>)}}

(***************************************************************************)
(* The environment of the handler                                          *)
(***************************************************************************)
Requests ==
    {[method |-> m, body |-> b] :
        m \in {"POST", "GET"},
        b \in {Null, EmptyObj}
                \cup {Obj(<<"image">> :> i) : i \in {Str(<<>>), Str(<<SP>>), Str(<<"QUJD">>)}}}
ApiKeys == {Undefined, Str(<<>>), Str(<<"sk">>)}

\* The completions a provider may return, each with its origin: the JSON
\* candidate and wrapper it was written from (kind "json"), or kind "text".
NoOrigin == [kind |-> "text", w |-> "bare", members |-> <<>>]
Completions ==
    {[c |-> c, origin |-> NoOrigin] : c \in {Undefined, Null, Arr(<<Str(ItemA)>>)}}
    \cup {[c |-> Str(t), origin |-> NoOrigin] : t \in BrokenTexts \cup FreeTexts}
    \cup {[c |-> Str(Wrap(w, StringifyMembers(ms))),
           origin |-> [kind |-> "json", w |-> w, members |-> ms]] :
            w \in Wrappers, ms \in Candidates}

\* the parsed body of a provider response carrying this completion
DataWith(c) ==
    Obj(<<"choices">> :>
        Arr(<<Obj(<<"message">> :>
                IF c.t = "undef" THEN EmptyObj ELSE Obj(<<"content">> :> c))>>))

\* What fetch() settles to.  rejected: the network call failed.  data: what
\* response.json() resolves to, Undefined when it rejects (a malformed body).
Settlement(rejected, ok, status, statusText, data, origin) ==
    [rejected |-> rejected, ok |-> ok, status |-> status, statusText |-> statusText,
     data |-> data, origin |-> origin]

Settlements ==
    {Settlement(TRUE, FALSE, "0", "", Undefined, NoOrigin)}
    \cup {Settlement(FALSE, FALSE, st[1], st[2], Undefined, NoOrigin) :
            st \in {<<"429", "Too Many Requests">>, <<"500", "">>}}
    \cup {Settlement(FALSE, TRUE, "200", "OK", d, NoOrigin) :
            d \in {Undefined, Null, EmptyObj, Obj(<<"choices">> :> Arr(<<>>)),
                   Obj(<<"choices">> :> Arr(<<EmptyObj>>))}}
    \cup {Settlement(FALSE, TRUE, "200", "OK", DataWith(x.c), x.origin) : x \in Completions}

NoResponse == Settlement(FALSE, FALSE, "", "", Undefined, NoOrigin)

(***************************************************************************)
(* The handler (lines 4-157).  Each stage yields <<reply>> when it sends   *)
(* a response and returns, and <<>> when the handler goes on.              *)
(***************************************************************************)
\* res.status(status).json(fields): JSON.stringify drops undefined members
JsonBody(fields) == [k \in {k \in DOMAIN fields : fields[k].t # "undef"} |-> fields[k]]
Reply(status, fields) == [status |-> status, body |-> JsonBody(fields)]

ErrorBody(msg) == "error" :> Str(msg)
RecipeBody(recipe) == "recipe" :> recipe

\* a faulty variant: the thrown value carries no message, so the body holds no error
OuterCatchNoMessage(message) == <<Reply(500, "error" :> Undefined)>>

\* lines 151-156: the outer catch, for a thrown Error with this message
OuterCatch(message) == <<Reply(500, ErrorBody(message))>>

\* lines 8-10
MethodStage(q) ==
    IF q.method # "POST"
    THEN <<Reply(405, ErrorBody(Words(<<"Method", "not", "allowed">>)))>>
    ELSE <<>>

\* a faulty variant: a missing image is answered with the generic 500
ImageStageAs500(q) ==
    IF q.body.t \in {"null", "undef"}
    THEN OuterCatch(Words(<<"Cannot", "destructure", "property", "image">>))
    ELSE IF ~ Truthy(Get(q.body, <<"image">>))
    THEN <<Reply(500, ErrorBody(Words(<<"Image", "is", "required">>)))>>
    ELSE <<>>

\* lines 13-17: destructuring a null body throws a TypeError
ImageStage(q) ==
    IF q.body.t \in {"null", "undef"}
    THEN OuterCatch(Words(<<"Cannot", "destructure", "property", "image">>))
    ELSE IF ~ Truthy(Get(q.body, <<"image">>))
    THEN <<Reply(400, ErrorBody(Words(<<"Image", "is", "required">>)))>>
    ELSE <<>>

\* a faulty variant: the credential check is missing
ApiKeyStageNoCheck(k) == <<>>

\* lines 19-23
ApiKeyStage(k) ==
    IF ~ Truthy(k)
    THEN <<Reply(500, ErrorBody(Words(<<"API", "configuration", "error">>)))>>
    ELSE <<>>

\* array[0]
First(val) == IF val.t = "arr" /\ Len(val.a) > 0 THEN val.a[1] ELSE Undefined

\* lines 51, 83-96: a rejection of fetch(), the rejection of response.json()
\* and the TypeError of null.choices reach the outer catch
GatewayStage(r) ==
    IF r.rejected THEN OuterCatch(Words(<<"fetch", "failed">>))
    ELSE IF ~ r.ok
    THEN <<Reply(500, ErrorBody(Words(<<"Failed", "to", "generate", "recipe">>)
                                \o <<":", SP, r.status, SP, r.statusText>>))>>
    ELSE IF r.data.t = "undef" THEN OuterCatch(Words(<<"Unexpected", "token">>))
    ELSE IF r.data.t = "null"
    THEN OuterCatch(Words(<<"Cannot", "read", "properties", "of", "null">>))
    ELSE IF \/ ~ Truthy(Get(r.data, <<"choices">>))
            \/ ~ Truthy(First(Get(r.data, <<"choices">>)))
            \/ ~ Truthy(Get(First(Get(r.data, <<"choices">>)), <<"message">>))
    THEN <<Reply(500, ErrorBody(Words(<<"Invalid", "response", "from", "AI", "service">>)))>>
    ELSE <<>>

\* line 98
ContentOf(r) == Get(Get(First(Get(r.data, <<"choices">>)), <<"message">>), <<"content">>)

\* lines 100-135: the inner try
Tier1Stage(c) ==
    LET tried == Tier1(c)
    IN  IF tried.thrown THEN <<>> ELSE <<Reply(200, RecipeBody(tried.recipe))>>

\* lines 135-149: the inner catch
Tier2Stage(c) ==
    LET tried == Tier2(c)
    IN  IF tried.thrown
        THEN <<Reply(500, ErrorBody(Words(<<"Failed", "to", "parse", "recipe", "from", "AI",
                                            "response">>)))>>
        ELSE <<Reply(200, RecipeBody(tried.recipe))>>

\* the response to a request whose fetch(), if issued, settles to r
HandlerReply(q, k, r) ==
    IF MethodStage(q) # <<>> THEN MethodStage(q)[1]
    ELSE IF ImageStage(q) # <<>> THEN ImageStage(q)[1]
    ELSE IF ApiKeyStage(k) # <<>> THEN ApiKeyStage(k)[1]
    ELSE IF GatewayStage(r) # <<>> THEN GatewayStage(r)[1]
    ELSE IF Tier1Stage(ContentOf(r)) # <<>> THEN Tier1Stage(ContentOf(r))[1]
    ELSE Tier2Stage(ContentOf(r))[1]

\* the array coercion and the page are not running
NIdle ==
    /\ normRecipe = Undefined
    /\ npc = "idle"
    /\ passes = 0
    /\ afterFirst = Undefined

\* src/pages/index.tsx lines 7-18: the initial state of the page
PInitialState ==
    /\ imageState = [file |-> Null, preview |-> Null, isUploading |-> FALSE, error |-> Null]
    /\ loadingState = [isLoading |-> FALSE, message |-> <<>>]
    /\ pageRecipe = Null
    /\ pageError = Null
    /\ readers = {}
    /\ requests = {}

PIdle ==
    /\ PInitialState
    /\ uploads = 0
    /\ generates = 0

HInit ==
    /\ pc = "method"
    /\ req \in Requests
    /\ apiKey \in ApiKeys
    /\ response = NoResponse
    /\ content = Undefined
    /\ res = <<>>
    /\ fetchCalls = 0
    /\ stages = <<>>

\* a stage that yielded out has run: the handler returns or goes on to next
Proceed(out, next) ==
    /\ res' = res \o out
    /\ pc' = IF out # <<>> THEN "done" ELSE next

CheckMethod ==
    /\ pc = "method"
    /\ stages' = Append(stages, "method")
    /\ Proceed(MethodStage(req), "image")
    /\ UNCHANGED <<req, apiKey, response, content, fetchCalls, xvars, nvars, pvars>>

CheckImage ==
    /\ pc = "image"
    /\ stages' = Append(stages, "image")
    /\ Proceed(ImageStage(req), "credential")
    /\ UNCHANGED <<req, apiKey, response, content, fetchCalls, xvars, nvars, pvars>>

CheckApiKey ==
    /\ pc = "credential"
    /\ stages' = Append(stages, "credential")
    /\ Proceed(ApiKeyStage(apiKey), "fetch")
    /\ UNCHANGED <<req, apiKey, response, content, fetchCalls, xvars, nvars, pvars>>

\* lines 51-81: the call is issued and the handler awaits it
CallFetch ==
    /\ pc = "fetch"
    /\ stages' = Append(stages, "gateway")
    /\ fetchCalls' = fetchCalls + 1
    /\ pc' = "awaitFetch"
    /\ UNCHANGED <<req, apiKey, response, content, res, xvars, nvars, pvars>>

\* lines 51, 83-98: fetch() settles
FetchSettles ==
    /\ pc = "awaitFetch"
    /\ \E r \in Settlements :
        /\ response' = r
        /\ Proceed(GatewayStage(r), "tier1")
        /\ content' = IF GatewayStage(r) = <<>> THEN ContentOf(r) ELSE content
    /\ UNCHANGED <<req, apiKey, fetchCalls, stages, xvars, nvars, pvars>>

RunTier1 ==
    /\ pc = "tier1"
    /\ stages' = Append(stages, "tier1")
    /\ Proceed(Tier1Stage(content), "tier2")
    /\ UNCHANGED <<req, apiKey, response, content, fetchCalls, xvars, nvars, pvars>>

RunTier2 ==
    /\ pc = "tier2"
    /\ stages' = Append(stages, "tier2")
    /\ Proceed(Tier2Stage(content), "done")
    /\ UNCHANGED <<req, apiKey, response, content, fetchCalls, xvars, nvars, pvars>>

XIdle ==
    /\ text = <<>>
    /\ xpc = "idle"
    /\ idx = 0
    /\ title = <<>>
    /\ ingredients = <<>>
    /\ inIngredientsSection = FALSE
    /\ instructions = <<>>
    /\ inInstructionsSection = FALSE
    /\ result = Undefined

Init == HInit /\ XIdle /\ NIdle /\ PIdle

Next ==
    \/ CheckMethod
    \/ CheckImage
    \/ CheckApiKey
    \/ CallFetch
    \/ FetchSettles
    \/ RunTier1
    \/ RunTier2

Spec == Init /\ [][Next]_vars

\* the stage-by-stage run sends what the stages decide
HandlerAgrees ==
    pc = "done" => res = <<HandlerReply(req, apiKey, response)>>

(***************************************************************************)
(* extractRecipeFromText, statement by statement (lines 160-236)           *)
(***************************************************************************)
HIdle ==
    /\ pc = "idle"
    /\ req = [method |-> "POST", body |-> EmptyObj]
    /\ apiKey = Undefined
    /\ response = NoResponse
    /\ content = Undefined
    /\ res = <<>>
    /\ fetchCalls = 0
    /\ stages = <<>>

XInit ==
    /\ text \in XTexts
    /\ xpc = "title"
    /\ idx = 0
    /\ title = <<>>
    /\ ingredients = <<>>
    /\ inIngredientsSection = FALSE
    /\ instructions = <<>>
    /\ inInstructionsSection = FALSE
    /\ result = Undefined

\* lines 161-174
XTitle ==
    /\ xpc = "title"
    /\ title' = ExtractTitle(text)
    /\ xpc' = "ingredients"
    /\ idx' = 1
    /\ UNCHANGED <<text, ingredients, inIngredientsSection, instructions,
                   inInstructionsSection, result, hvars, nvars, pvars>>

\* lines 176-195: one iteration
XIngredientsLine ==
    /\ xpc = "ingredients"
    /\ idx <= Len(Lines(text))
    /\ LET st == IngredientsStep([list |-> ingredients, flag |-> inIngredientsSection],
                                 Lines(text)[idx])
       IN  /\ ingredients' = st.list
           /\ inIngredientsSection' = st.flag
    /\ idx' = idx + 1
    /\ UNCHANGED <<text, xpc, title, instructions, inInstructionsSection, result, hvars, nvars, pvars>>

\* lines 197-199: the first loop is over
XStartInstructions ==
    /\ xpc = "ingredients"
    /\ idx > Len(Lines(text))
    /\ xpc' = "instructions"
    /\ idx' = 1
    /\ UNCHANGED <<text, title, ingredients, inIngredientsSection, instructions,
                   inInstructionsSection, result, hvars, nvars, pvars>>

\* lines 201-215: one iteration
XInstructionsLine ==
    /\ xpc = "instructions"
    /\ idx <= Len(Lines(text))
    /\ LET st == InstructionsStep([list |-> instructions, flag |-> inInstructionsSection],
                                  Lines(text)[idx])
       IN  /\ instructions' = st.list
           /\ inInstructionsSection' = st.flag
    /\ idx' = idx + 1
    /\ UNCHANGED <<text, xpc, title, ingredients, inIngredientsSection, result, hvars, nvars, pvars>>

\* lines 217-235: the placeholders and the return
XReturn ==
    /\ xpc = "instructions"
    /\ idx > Len(Lines(text))
    /\ ingredients' = IngredientsOrPlaceholder(ingredients)
    /\ instructions' = InstructionsOrPlaceholder(instructions)
    /\ result' = MakeRecipe(title, ingredients', instructions')
    /\ xpc' = "done"
    /\ UNCHANGED <<text, idx, title, inIngredientsSection, inInstructionsSection, hvars, nvars, pvars>>

NextExtract ==
    \/ XTitle
    \/ XIngredientsLine
    \/ XStartInstructions
    \/ XInstructionsLine
    \/ XReturn

InitExtract == HIdle /\ XInit /\ NIdle /\ PIdle

SpecExtract == InitExtract /\ [][NextExtract]_vars

\* the statement-by-statement run returns what the function returns
ExtractAgrees == xpc = "done" => result = ExtractRecipeFromText(text)

(***************************************************************************)
(* The array coercion, lines 125-131, run repeatedly on one recipe         *)
(***************************************************************************)
MaxPasses == 2

\* the parsed objects that pass the structure check of lines 121-123
NormInputs == {r \in {Obj(MembersObj(c)) : c \in Candidates} : ValidStructure(r)}

NInit ==
    /\ normRecipe \in NormInputs
    /\ npc = "ingredients"
    /\ passes = 0
    /\ afterFirst = Undefined

\* lines 126-128
CoerceIngredients ==
    /\ npc = "ingredients"
    /\ passes < MaxPasses
    /\ normRecipe' = EnsureArray(normRecipe, <<"ingredients">>)
    /\ npc' = "instructions"
    /\ UNCHANGED <<passes, afterFirst, hvars, xvars, pvars>>

\* lines 129-131
CoerceInstructions ==
    /\ npc = "instructions"
    /\ normRecipe' = EnsureArray(normRecipe, <<"instructions">>)
    /\ npc' = "ingredients"
    /\ passes' = passes + 1
    /\ afterFirst' = IF passes = 0 THEN normRecipe' ELSE afterFirst
    /\ UNCHANGED <<hvars, xvars, pvars>>

NextNormalize == CoerceIngredients \/ CoerceInstructions

InitNormalize == HIdle /\ XIdle /\ NInit /\ PIdle

SpecNormalize == InitNormalize /\ [][NextNormalize]_vars

(***************************************************************************)
(* The page component (src/pages/index.tsx).  A file is [t, name, type,    *)
(* size, data]: type is the lexemes of its MIME type, data the base64 of   *)
(* its bytes.  A recipe shown on the page is tagged with the image of the  *)
(* request that produced it.                                               *)
(***************************************************************************)
MaxUploads == 2
MaxGenerates == 2

\* line 26: 10 * 1024 * 1024
MaxFileSize == 10485760

File(name, type, size, data) ==
    [t |-> "file", name |-> name, type |-> type, size |-> size, data |-> data]

\* the files a user may choose: two images, an image of just the allowed
\* size, a text file and an image that is too large
Files ==
    {File("a.png", <<"image", "/", "png">>, 1024, "QUJD"),
     File("b.jpg", <<"image", "/", "jpeg">>, MaxFileSize, "REVG"),
     File("notes.txt", <<"text", "/", "plain">>, 1024, "R0hJ"),
     File("big.png", <<"image", "/", "png">>, MaxFileSize + 1, "SktM")}

\* line 21: file.type.startsWith('image/')
IsImageType(type) == Len(type) >= 2 /\ SubSeq(type, 1, 2) = <<"image", "/">>

\* line 33: the result of readAsDataURL
DataURL(f) == <<"data", ":">> \o f.type \o <<";", "base64", ",", f.data>>

\* String.prototype.split(',')
RECURSIVE SplitComma(_)
SplitComma(s) ==
    LET i == IndexOf(s, ",")
    IN  IF i = 0 THEN <<s>>
        ELSE <<SubSeq(s, 1, i - 1)>> \o SplitComma(SubSeq(s, i + 1, Len(s)))

\* line 91: imageState.preview.split(',')[1]
Base64Image(preview) ==
    IF Len(SplitComma(preview)) >= 2 THEN Str(SplitComma(preview)[2]) ELSE Undefined

NoImage == [file |-> Null, preview |-> Null, isUploading |-> FALSE, error |-> Null]
NotLoading == [isLoading |-> FALSE, message |-> <<>>]

\* the recipe the API returns for an image
RecipeOf(image) == [t |-> "obj", image |-> image]

\* what the awaited fetch() and response.json() of lines 93-101 may give:
\* a recipe, an error with or without a message, a success without recipe,
\* a rejection
Outcomes == {"recipe", "error", "errorNoMessage", "empty", "rejected"}

\* lines 103-116: the error set for an outcome without a recipe
ErrorOf(outcome) ==
    CASE outcome = "error" -> Str(Words(<<"Invalid", "response", "from", "AI", "service">>))
      [] outcome = "errorNoMessage" -> Str(Words(<<"Failed", "to", "generate", "recipe">>))
      [] outcome = "empty" -> Str(Words(<<"No", "recipe", "returned", "from", "API">>))
      [] OTHER -> Str(Words(<<"Failed", "to", "fetch">>))

\* lines 20-30, 43: handleImageUpload up to readAsDataURL; the upload area
\* and its file dialog are shown while there is no preview (line 146)
HandleImageUpload ==
    /\ uploads < MaxUploads
    /\ ~ Truthy(imageState.preview)
    /\ \E f \in Files :
        IF ~ IsImageType(f.type)
        THEN /\ imageState' = [imageState EXCEPT
                    !.error = Str(Words(<<"Please", "select", "an", "image", "file">>))]
             /\ UNCHANGED readers
        ELSE IF f.size > MaxFileSize
        THEN /\ imageState' = [imageState EXCEPT
                    !.error = Str(Words(<<"Image", "size", "must", "be", "less", "than">>)
                                  \o <<SP, "10", "MB">>)]
             /\ UNCHANGED readers
        ELSE /\ readers' = readers \cup {[file |-> f, n |-> uploads + 1]}
             /\ UNCHANGED imageState
    /\ uploads' = uploads + 1
    /\ UNCHANGED <<loadingState, pageRecipe, pageError, requests, generates,
                   hvars, xvars, nvars>>

\* lines 32-42: reader.onload
ReaderLoads ==
    /\ \E r \in readers :
        /\ imageState' = [file |-> r.file, preview |-> Str(DataURL(r.file)),
                          isUploading |-> FALSE, error |-> Null]
        /\ readers' = readers \ {r}
    /\ pageRecipe' = Null
    /\ pageError' = Null
    /\ UNCHANGED <<loadingState, requests, uploads, generates, hvars, xvars, nvars>>

\* lines 65-77: removeImage; its button is shown with the preview (line 161)
RemoveImage ==
    /\ Truthy(imageState.preview)
    /\ imageState' = NoImage
    /\ pageRecipe' = Null
    /\ pageError' = Null
    /\ UNCHANGED <<loadingState, readers, requests, uploads, generates, hvars, xvars, nvars>>

\* lines 79-99: generateRecipe up to the await of fetch(); its button is
\* shown with the preview and disabled while loading (lines 190-194)
GenerateRecipe ==
    /\ generates < MaxGenerates
    /\ Truthy(imageState.preview)
    /\ ~ loadingState.isLoading
    /\ generates' = generates + 1
    /\ IF imageState.file.t = "null" \/ ~ Truthy(imageState.preview)
       THEN /\ pageError' = Str(Words(<<"Please", "upload", "an", "image", "first">>))
            /\ UNCHANGED <<loadingState, pageRecipe, requests>>
       ELSE /\ loadingState' = [isLoading |-> TRUE,
                                message |-> Words(<<"Analyzing", "your", "delicious", "food">>)]
            /\ pageError' = Null
            /\ pageRecipe' = Null
            /\ requests' = requests \cup
                    {[image |-> Base64Image(imageState.preview.s), n |-> generates + 1]}
    /\ UNCHANGED <<imageState, readers, uploads, hvars, xvars, nvars>>

\* lines 101-116: the awaits of generateRecipe are over
ResponseArrives ==
    /\ \E q \in requests, outcome \in Outcomes :
        /\ requests' = requests \ {q}
        /\ IF outcome = "recipe"
           THEN /\ pageRecipe' = RecipeOf(q.image)
                /\ UNCHANGED pageError
           ELSE /\ pageError' = ErrorOf(outcome)
                /\ UNCHANGED pageRecipe
    /\ loadingState' = NotLoading
    /\ UNCHANGED <<imageState, readers, uploads, generates, hvars, xvars, nvars>>

NextPage ==
    \/ HandleImageUpload
    \/ ReaderLoads
    \/ RemoveImage
    \/ GenerateRecipe
    \/ ResponseArrives

InitPage == HIdle /\ XIdle /\ NIdle /\ PIdle

SpecPage == InitPage /\ [][NextPage]_vars

(***************************************************************************)
(* Claims about the handler (checked under Spec)                           *)
(***************************************************************************)
Image == <<"image">>
TitleKey == <<"title">>
IngredientsKey == <<"ingredients">>
InstructionsKey == <<"instructions">>

\* a non-empty sequence: no bare scalar, no empty sequence
NonEmptyList(val) == val.t = "arr" /\ Len(val.a) > 0

WellFormedRecipe(r) ==
    /\ r.t = "obj"
    /\ Get(r, TitleKey).t = "str"
    /\ Get(r, TitleKey).s # <<>>
    /\ NonEmptyList(Get(r, IngredientsKey))
    /\ NonEmptyList(Get(r, InstructionsKey))

\* C1: every recipe returned in a 200 response, from Tier 1 or from Tier 2,
\* has a non-empty title and non-empty sequences as ingredients and
\* instructions; a candidate with an empty sequence is not returned.
C1_ReturnedRecipeWellFormed ==
    \A i \in 1..Len(res) :
        res[i].status = 200 =>
            /\ "recipe" \in DOMAIN res[i].body
            /\ WellFormedRecipe(res[i].body["recipe"])

\* the order of the handler's positions
Rank(p) ==
    CASE p = "method" -> 1
      [] p = "image" -> 2
      [] p = "credential" -> 3
      [] p = "fetch" -> 4
      [] p = "awaitFetch" -> 5
      [] p = "tier1" -> 6
      [] p = "tier2" -> 7
      [] p = "done" -> 8
      [] OTHER -> 0

OneResponse ==
    /\ Len(res) <= 1
    /\ (pc = "done") = (Len(res) = 1)
    /\ \A i \in 1..Len(res) : DOMAIN res[i].body \in {{"recipe"}, {"error"}}

\* C2: whatever the request and however the provider responds or fails, the
\* handler ends having sent exactly one response, which carries either a
\* recipe or an error, never both and never neither: no response before
\* the end, one at the end, and every step moves the handler towards its end.
C2_ExactlyOneResponse == []OneResponse /\ [][Rank(pc') > Rank(pc)]_vars

\* a malformed provider body was answered with one error response
C2_Witness ==
    /\ pc = "done"
    /\ response.ok
    /\ response.data.t = "undef"
    /\ Len(res) = 1
    /\ DOMAIN res[1].body = {"error"}

\* the image member is missing, empty or only whitespace
BlankImage(q) ==
    /\ q.body.t = "obj"
    /\ \/ Get(q.body, Image).t = "undef"
       \/ Get(q.body, Image).t = "str" /\ Trim(Get(q.body, Image).s) = <<>>

\* C3: a POST whose image is missing, empty or whitespace-only gets the
\* bad-request outcome, and fetch() is never called for it.
C3_BlankImageRejected ==
    (req.method = "POST" /\ BlankImage(req)) =>
        /\ fetchCalls = 0
        /\ (pc = "done" => Len(res) = 1 /\ res[1].status = 400)

StageOrder == <<"method", "image", "credential", "gateway", "tier1", "tier2">>
Entered(stage) == \E i \in 1..Len(stages) : stages[i] = stage
Settled == response.status # ""

\* C4: the stages run in the order method, image, credential, gateway,
\* extraction, each only after every earlier one passed; fetch() is called at
\* most once and only after the three checks passed; on a non-success
\* gateway status the handler answers 500 and runs neither Tier 1 nor Tier 2.
C4_StagesInOrder ==
    /\ Len(stages) <= Len(StageOrder)
    /\ stages = SubSeq(StageOrder, 1, Len(stages))
    /\ (Entered("image") => req.method = "POST")
    /\ (Entered("credential") => Truthy(Get(req.body, Image)))
    /\ (Entered("gateway") => Truthy(apiKey))
    /\ (Entered("tier1") => Settled /\ ~ response.rejected /\ response.ok)
    /\ fetchCalls = (IF Entered("gateway") THEN 1 ELSE 0)
    /\ (Settled /\ ~ response.rejected /\ ~ response.ok =>
            /\ pc = "done"
            /\ Len(res) = 1
            /\ res[1].status = 500
            /\ DOMAIN res[1].body = {"error"}
            /\ ~ Entered("tier1")
            /\ ~ Entered("tier2"))

\* a non-success gateway status was answered after one call
C4_Witness ==
    /\ pc = "done"
    /\ fetchCalls = 1
    /\ response.status = "429"
    /\ stages = SubSeq(StageOrder, 1, 4)

FailureClasses == {"input", "config", "service"}

\* the failure class of a request whose fetch(), if issued, settles to r
FailureClass(q, k, r) ==
    IF q.method # "POST" \/ q.body.t # "obj" \/ ~ Truthy(Get(q.body, Image)) THEN "input"
    ELSE IF ~ Truthy(k) THEN "config"
    ELSE IF HandlerReply(q, k, r).status # 200 THEN "service"
    ELSE "none"

\* the settlements another request is compared with
ProbeSettlements ==
    {r \in Settlements : r.origin.kind = "text" /\ GatewayStage(r) # <<>>}
    \cup {Settlement(FALSE, TRUE, "200", "OK", DataWith(Null), NoOrigin)}

RequiredKeys == {TitleKey, IngredientsKey, InstructionsKey}
MemberKeys(ms) == {ms[i].k : i \in 1..Len(ms)}
MemberVal(ms, key) == Get(Obj(MembersObj(ms)), key)

\* C7: when Tier 1 yields no usable object for a textual completion (no
\* brace pair, a parse failure, a missing required member), the handler
\* answers 200 with the Tier 2 recipe of the original raw text.
C7_FallbackOnRawText ==
    (pc = "done" /\ content.t = "str") =>
        /\ res[1].status = 200
        /\ (~ Includes(content.s, "{") \/ ~ Includes(content.s, "}") => Entered("tier2"))
        /\ (/\ response.origin.kind = "json"
            /\ RequiredKeys \ MemberKeys(response.origin.members) # {}
            => Entered("tier2"))
        /\ (Entered("tier2") =>
                res[1].body = RecipeBody(ExtractRecipeFromText(content.s)))

\* a fenced object without a title was answered from the raw text, whose
\* first line, the opening fence, became the title
C7_Witness ==
    /\ pc = "done"
    /\ response.origin.kind = "json"
    /\ response.origin.w = "fenced"
    /\ TitleKey \notin MemberKeys(response.origin.members)
    /\ IngredientsKey \in MemberKeys(response.origin.members)
    /\ Entered("tier2")
    /\ res[1].status = 200
    /\ Get(res[1].body["recipe"], TitleKey) = Str(<<Fence, "json">>)

\* the object of the members, a scalar ingredients / instructions member v
\* replaced by [v]
Expected(ms) ==
    LET o == MembersObj(ms)
    IN  Obj([k \in DOMAIN o |->
                IF k \in {IngredientsKey, InstructionsKey} /\ o[k].t # "arr"
                THEN Arr(<<o[k]>>) ELSE o[k]])

\* the completion is a fenced code block holding a JSON object
Fenced == response.origin.kind = "json" /\ response.origin.w = "fenced"

\* title, ingredients and instructions are present; the latter two are an
\* array or a scalar
RequiredPresent(ms) ==
    /\ RequiredKeys \subseteq MemberKeys(ms)
    /\ MemberVal(ms, TitleKey).t # "null"
    /\ MemberVal(ms, IngredientsKey).t \in {"str", "num", "bool", "arr"}
    /\ MemberVal(ms, InstructionsKey).t \in {"str", "num", "bool", "arr"}

\* C8 as claimed: a fenced well-formed JSON object with title, ingredients
\* and instructions present is returned with every member preserved, a
\* scalar ingredients / instructions member v replaced by [v].
C8_FencedObjectReturned ==
    (pc = "done" /\ Fenced /\ RequiredPresent(response.origin.members)) =>
        res = <<Reply(200, RecipeBody(Expected(response.origin.members)))>>

\* some string member holds a code fence
HoldsFence(ms) ==
    \E i \in 1..Len(ms) :
        \/ ms[i].val.t = "str" /\ Includes(ms[i].val.s, Fence)
        \/ ms[i].val.t = "arr" /\ \E j \in 1..Len(ms[i].val.a) :
                ms[i].val.a[j].t = "str" /\ Includes(ms[i].val.a[j].s, Fence)

\* C8 as amended: the same, for objects whose title, ingredients and
\* instructions are truthy (no empty string, no zero, no false) and whose
\* strings hold no code fence.
C8_TruthyFencedObjectReturned ==
    (/\ pc = "done"
     /\ Fenced
     /\ RequiredPresent(response.origin.members)
     /\ \A k \in RequiredKeys : Truthy(MemberVal(response.origin.members, k))
     /\ ~ HoldsFence(response.origin.members))
    => res = <<Reply(200, RecipeBody(Expected(response.origin.members)))>>

\* a fenced object with a scalar ingredients member was returned, wrapped
C8_Witness ==
    /\ pc = "done"
    /\ Fenced
    /\ RequiredPresent(response.origin.members)
    /\ MemberVal(response.origin.members, IngredientsKey) = Str(<<"one", SP, "item">>)
    /\ MemberVal(response.origin.members, InstructionsKey).t = "arr"
    /\ res[1].status = 200
    /\ Get(res[1].body["recipe"], IngredientsKey) = Arr(<<Str(<<"one", SP, "item">>)>>)

(***************************************************************************)
(* Claims about extractRecipeFromText (checked under SpecExtract)          *)
(***************************************************************************)
\* the texts of an array of strings
Texts(val) == [i \in 1..Len(val.a) |-> val.a[i].s]
ResultIngredients == Texts(Get(result, IngredientsKey))
ResultInstructions == Texts(Get(result, InstructionsKey))
ResultTitle == Get(result, TitleKey).s

IsBulletedLine(l) ==
    Len(l) >= 3 /\ l[1] \in {"-", "*", Bullet} /\ l[2] = SP /\ ~ IsSpace(l[3])
    /\ ~ IsSpace(l[Len(l)])
IsNumberedLine(l) ==
    Len(l) >= 4 /\ l[1] \in Digits /\ l[2] \in {".", ")"} /\ l[3] = SP /\ ~ IsSpace(l[4])
    /\ ~ IsSpace(l[Len(l)])
IsIngredientsHeaderLine(l) == l \in {<<"Ingredients">>, <<"Ingredients", ":">>}
IsInstructionsHeaderLine(l) == l \in {<<"Instructions">>, <<"Instructions", ":">>}

\* ls is an ingredients header, bulleted lines, an instructions header at
\* line k, numbered lines
SectionsAt(ls, k) ==
    /\ k \in 3..(Len(ls) - 1)
    /\ IsIngredientsHeaderLine(ls[1])
    /\ IsInstructionsHeaderLine(ls[k])
    /\ \A i \in 2..(k - 1) : IsBulletedLine(ls[i])
    /\ \A i \in (k + 1)..Len(ls) : IsNumberedLine(ls[i])

\* C6: for an ingredients header, bulleted lines, an instructions header
\* and numbered lines, the ingredients are exactly the bulleted lines
\* without their markers and the instructions exactly the numbered lines
\* without their markers, both in order.
C6_SectionsExtracted ==
    xpc = "done" =>
        \A k \in 1..Len(SplitNL(text)) :
            SectionsAt(SplitNL(text), k) =>
                /\ ResultIngredients =
                        [i \in 1..(k - 2) |->
                            SubSeq(SplitNL(text)[i + 1], 3, Len(SplitNL(text)[i + 1]))]
                /\ ResultInstructions =
                        [i \in 1..(Len(SplitNL(text)) - k) |->
                            SubSeq(SplitNL(text)[k + i], 4, Len(SplitNL(text)[k + i]))]

\* line i of ls is under an ingredients header
UnderIngredients(ls, i) ==
    \E j \in 1..(i - 1) :
        /\ IsIngredientsHeader(ls[j])
        /\ \A m \in (j + 1)..(i - 1) : IsIngredientsHeader(ls[m]) \/ ~ IsInstructionsHeader(ls[m])

\* the lines recognised as ingredient content
IngredientContent(ls) ==
    {i \in 1..Len(ls) :
        /\ ~ IsIngredientsHeader(ls[i])
        /\ ~ IsInstructionsHeader(ls[i])
        /\ UnderIngredients(ls, i) \/ BulletPrefix(Trim(ls[i])) # 0
        /\ Trim(StripBullet(Trim(ls[i]))) # <<>>}

\* the lines recognised as instruction content
InstructionContent(ls) ==
    {i \in 1..Len(ls) :
        /\ ~ IsInstructionsHeader(ls[i])
        /\ (\E j \in 1..(i - 1) : IsInstructionsHeader(ls[j])) \/ StepPrefix(Trim(ls[i])) # 0
        /\ Trim(StripStep(Trim(ls[i]))) # <<>>}

\* the order of the positions of extractRecipeFromText
XRank(p) ==
    CASE p = "title" -> 1
      [] p = "ingredients" -> 2
      [] p = "instructions" -> 3
      [] p = "done" -> 4
      [] OTHER -> 0

\* a step leaves a loop or takes the next line of the text
XAdvances ==
    \/ XRank(xpc') > XRank(xpc)
    \/ xpc' = xpc /\ idx' = idx + 1 /\ idx <= Len(Lines(text))

ListsNeverEmpty ==
    xpc = "done" =>
        /\ result.t = "obj"
        /\ NonEmptyList(Get(result, IngredientsKey))
        /\ NonEmptyList(Get(result, InstructionsKey))
        /\ (IngredientContent(Lines(text)) = {}
                => ResultIngredients = <<IngredientsPlaceholder>>)
        /\ (InstructionContent(Lines(text)) = {}
                => ResultInstructions = <<InstructionsPlaceholder>>)

\* C9: extractRecipeFromText returns a recipe for every text, with non-empty
\* ingredients and instructions; without a line recognised as ingredient
\* (instruction) content the list is exactly the one placeholder entry; its
\* loops run once per line, so it ends.
C9_NeverEmpty == []ListsNeverEmpty /\ [][XAdvances]_vars

\* a text with a line, but none that is content, returned both placeholders
C9_Witness ==
    /\ xpc = "done"
    /\ Len(Lines(text)) = MaxLines
    /\ IngredientContent(Lines(text)) = {}
    /\ InstructionContent(Lines(text)) = {}
    /\ ResultIngredients = <<IngredientsPlaceholder>>
    /\ ResultInstructions = <<InstructionsPlaceholder>>

Keywords ==
    WordsContaining("ingredients") \cup WordsContaining("instructions")
    \cup WordsContaining("directions") \cup WordsContaining("steps")
    \cup WordsEndingWith("title") \cup WordsEndingWith("dish") \cup WordsEndingWith("recipe")

\* a non-empty trimmed text without keyword
Plain(s) ==
    /\ s # <<>>
    /\ Trim(s) = s
    /\ \A i \in 1..Len(s) : s[i] \notin Keywords /\ s[i] # NL

Distinct(ss) == \A i, j \in 1..Len(ss) : i # j => ss[i] # ss[j]

TitleLabel == <<"Title", ":", SP>>
StepLabel(l) == Len(l) >= 5 /\ l[1] = "Step" /\ l[2] = SP /\ l[3] \in Digits
                /\ l[4] = ":" /\ l[5] = SP
ItemLabel(l) == Len(l) >= 3 /\ l[1] \in Digits /\ l[2] = "." /\ l[3] = SP

Rest(l, n) == SubSeq(l, n + 1, Len(l))

\* ls is "Title: T", "Ingredients", lines "k. item", "Instructions" at line
\* k, lines "Step k: action"
TitledAt(ls, k) ==
    /\ k \in 4..(Len(ls) - 1)
    /\ Len(ls[1]) > 3
    /\ SubSeq(ls[1], 1, 3) = TitleLabel
    /\ Plain(Rest(ls[1], 3))
    /\ ls[2] = <<"Ingredients">>
    /\ ls[k] = <<"Instructions">>
    /\ \A i \in 3..(k - 1) : ItemLabel(ls[i]) /\ Plain(Rest(ls[i], 3))
    /\ \A i \in (k + 1)..Len(ls) : StepLabel(ls[i]) /\ Plain(Rest(ls[i], 5))
    /\ Distinct([i \in 1..(k - 3) |-> Rest(ls[i + 2], 3)])
    /\ Distinct([i \in 1..(Len(ls) - k) |-> Rest(ls[k + i], 5)])

\* C10: for "Title: T", "Ingredients", lines "k. item", "Instructions",
\* lines "Step k: action", the title is T, the ingredients are the items in
\* order and the instructions are the actions in order.
C10_TitledTextExtracted ==
    xpc = "done" =>
        \A k \in 1..Len(SplitNL(text)) :
            TitledAt(SplitNL(text), k) =>
                /\ ResultTitle = Rest(SplitNL(text)[1], 3)
                /\ ResultIngredients =
                        [i \in 1..(k - 3) |-> Rest(SplitNL(text)[i + 2], 3)]
                /\ ResultInstructions =
                        [i \in 1..(Len(SplitNL(text)) - k) |-> Rest(SplitNL(text)[k + i], 5)]

\* the example: Title: Pasta / Ingredients / 1. Pasta / 2. Cheese /
\* Instructions / Step 1: Boil water / Step 2: Add pasta
C10_Witness ==
    /\ xpc = "done"
    /\ text = JoinNL(<< <<"Title", ":", SP, "Pasta">>, <<"Ingredients">>,
                        <<"1", ".", SP, "Pasta">>, <<"2", ".", SP, "Cheese">>,
                        <<"Instructions">>,
                        <<"Step", SP, "1", ":", SP, "Boil", SP, "water">>,
                        <<"Step", SP, "2", ":", SP, "Add", SP, "pasta">> >>)
    /\ TitledAt(SplitNL(text), 5)
    /\ ResultTitle = <<"Pasta">>
    /\ ResultIngredients = << <<"Pasta">>, <<"Cheese">> >>
    /\ ResultInstructions = << <<"Boil", SP, "water">>, <<"Add", SP, "pasta">> >>

(***************************************************************************)
(* Gateway failures (checked under Spec)                                   *)
(***************************************************************************)
\* the failure case of a settlement of fetch(): the call itself failed, the
\* provider answered a non-success status, or its success response lacks the
\* completion text
GatewayCase(r) ==
    IF r.rejected THEN "network"
    ELSE IF ~ r.ok THEN "status"
    ELSE IF GatewayStage(r) # <<>> \/ ContentOf(r).t # "str" THEN "missing"
    ELSE "none"

GatewayCases == {"network", "status", "missing"}

ParseFailureMessage == Words(<<"Failed", "to", "parse", "recipe", "from", "AI", "response">>)

\* C11: a non-success status, a success response without the completion
\* (a message without text content included) and a failed network call are
\* each answered with an error, two different cases never with the same
\* response, and a missing completion text never as a recipe-parse failure.
C11_GatewayFailuresDistinct ==
    (pc = "done" /\ Entered("gateway") /\ GatewayCase(response) \in GatewayCases) =>
        /\ res[1].status # 200
        /\ DOMAIN res[1].body = {"error"}
        /\ (GatewayCase(response) = "missing"
                => res[1].body["error"] # Str(ParseFailureMessage))
        /\ \A r \in ProbeSettlements :
                (GatewayCase(r) \in GatewayCases /\ GatewayCase(r) # GatewayCase(response))
                => HandlerReply(req, apiKey, r) # res[1]

(***************************************************************************)
(* The array coercion (checked under SpecNormalize)                        *)
(***************************************************************************)
\* C12: the array coercion is idempotent: once a recipe has been through
\* it, every further run, at each of its two statements, leaves the recipe
\* equal to what the first run returned.
C12_CoercionIdempotent == passes >= 1 => normRecipe = afterFirst

\* a scalar ingredients member was wrapped by the first run and a second run
\* is over
C12_Witness ==
    /\ passes = 2
    /\ npc = "ingredients"
    /\ Get(normRecipe, IngredientsKey) = Arr(<<Str(<<"one", SP, "item">>)>>)
    /\ Get(normRecipe, InstructionsKey).t = "arr"

(***************************************************************************)
(* The lists of the two scans (checked under SpecExtract)                  *)
(***************************************************************************)
CleanedIngredient(l) == Trim(StripBullet(Trim(l)))
CleanedInstruction(l) == Trim(StripStep(Trim(l)))

Entries(list) == {list[k] : k \in 1..Len(list)}

\* the lines the ingredients loop and the instructions loop have been through
IngredientsSeen == IF xpc = "ingredients" THEN idx - 1 ELSE Len(Lines(text))
InstructionsSeen ==
    IF xpc = "ingredients" THEN 0
    ELSE IF xpc = "instructions" THEN idx - 1
    ELSE Len(Lines(text))

\* the content lines among the first n lines, and the first of them that
\* produced the entry e
SeenIngredients(n) == {i \in IngredientContent(Lines(text)) : i <= n}
SeenInstructions(n) == {i \in InstructionContent(Lines(text)) : i <= n}
FirstIngredientLine(e, n) ==
    CHOOSE i \in SeenIngredients(n) :
        /\ CleanedIngredient(Lines(text)[i]) = e
        /\ \A j \in SeenIngredients(n) : CleanedIngredient(Lines(text)[j]) = e => i <= j
FirstInstructionLine(e, n) ==
    CHOOSE i \in SeenInstructions(n) :
        /\ CleanedInstruction(Lines(text)[i]) = e
        /\ \A j \in SeenInstructions(n) : CleanedInstruction(Lines(text)[j]) = e => i <= j

\* no two equal entries, no empty entry
CleanList(list) ==
    /\ \A k, m \in 1..Len(list) : k # m => list[k] # list[m]
    /\ \A k \in 1..Len(list) : list[k] # <<>>

ScanLists ==
    /\ CleanList(ingredients)
    /\ CleanList(instructions)
    /\ (xpc \in {"ingredients", "instructions"} =>
            /\ Entries(ingredients) =
                    {CleanedIngredient(Lines(text)[i]) : i \in SeenIngredients(IngredientsSeen)}
            /\ \A k, m \in 1..Len(ingredients) :
                    k < m => FirstIngredientLine(ingredients[k], IngredientsSeen)
                                < FirstIngredientLine(ingredients[m], IngredientsSeen)
            /\ Entries(instructions) =
                    {CleanedInstruction(Lines(text)[i]) : i \in SeenInstructions(InstructionsSeen)}
            /\ \A k, m \in 1..Len(instructions) :
                    k < m => FirstInstructionLine(instructions[k], InstructionsSeen)
                                < FirstInstructionLine(instructions[m], InstructionsSeen))

\* the line a scan is at cleans to an entry it already holds
AtCollectedIngredient ==
    /\ xpc = "ingredients"
    /\ idx <= Len(Lines(text))
    /\ CleanedIngredient(Lines(text)[idx]) \in Entries(ingredients)
AtCollectedInstruction ==
    /\ xpc = "instructions"
    /\ idx <= Len(Lines(text))
    /\ CleanedInstruction(Lines(text)[idx]) \in Entries(instructions)

DuplicateIgnored ==
    /\ (AtCollectedIngredient => ingredients' = ingredients)
    /\ (AtCollectedInstruction => instructions' = instructions)

\* C13: at every step of both Tier 2 scans each list holds no two equal
\* entries and no empty entry, its entries are the cleaned texts of the
\* content lines seen so far, in the order of the first line that produced
\* each; a line whose cleaned text is already an entry leaves the list
\* unchanged.
C13_ListsDeduplicated == []ScanLists /\ [][DuplicateIgnored]_vars

\* both scans are over, each went through a line whose text it already held
C13_Witness ==
    /\ xpc = "instructions"
    /\ idx > Len(Lines(text))
    /\ Len(ingredients) >= 1
    /\ Len(instructions) >= 1
    /\ Cardinality(IngredientContent(Lines(text))) > Len(ingredients)
    /\ Cardinality(InstructionContent(Lines(text))) > Len(instructions)

(***************************************************************************)
(* The page component (checked under SpecPage)                             *)
(***************************************************************************)
\* C14: whenever a recipe is shown, an image preview is present and it is
\* the image sent in the request that produced the recipe; a recipe and an
\* error are never shown together.
C14_RecipeOfLoadedImage ==
    /\ (pageRecipe.t # "null" =>
            /\ imageState.preview.t = "str"
            /\ Base64Image(imageState.preview.s) = pageRecipe.image)
    /\ ~ (pageRecipe.t # "null" /\ pageError.t # "null")

====
